---- MODULE Spec2Model ----
(***************************************************************************)
(* The correlation broker of src/src/rbx_studio_server.rs: the work queue, *)
(* the correlation table (output_map), the watch-channel wake signal, the  *)
(* submission path (generic_tool_run), the long-poll fetch                 *)
(* (request_handler), result delivery (response_handler), relay-receive    *)
(* (proxy_handler) and the relay loop (dud_proxy_loop).                    *)
(*                                                                         *)
(* Two broker instances exist: "back" serves the HTTP endpoints, "front"   *)
(* runs the relay loop.  Every critical section taken under the state      *)
(* mutex is one atomic action; an .await outside the lock separates two    *)
(* actions, except that a step touching only the task's own locals is      *)
(* taken together with the critical section that follows it.               *)
(***************************************************************************)
EXTENDS Integers, Sequences, FiniteSets, TLC

\* ------------------------------------------------------------- bounds
MaxCalls == 2        \* submissions (generic_tool_run calls) made in one run
NFetchers == 2       \* concurrent executors polling the fetch endpoint
NRelayFetchers == 1  \* executors polling the back broker behind a relay

Brokers == {"front", "back"}
Ids == 1..MaxCalls
Fetchers == 1..NFetchers
RelayFetchers == 1..NRelayFetchers
NoId == 0                    \* Option<Uuid>::None
ForgedId == MaxCalls + 1     \* a Uuid that no submission ever minted
\* The broker never reads a command's args: one value stands for them, the
\* identifier telling commands apart.
Args == {"ping"}             \* opaque ToolArgumentValues
Payloads == {"pong", "oops"} \* opaque response strings

VARIABLES
    process_queue,  \* [Brokers -> Seq(ToolArguments)]   AppState.process_queue
    output_map,     \* [Brokers -> [ids -> channel]]     AppState.output_map
    version,        \* [Brokers -> Nat]   version of the watch channel (trigger)
    chan,           \* [Brokers -> [Ids -> Seq(Result)]] mpsc channels, by handle
    nextId,         \* the next identifier Uuid::new_v4 yields
    tool,           \* [Ids -> generic_tool_run call]
    fetch,          \* [Fetchers -> request_handler call]
    proxy,          \* [Ids -> proxy_handler call at the back broker]
    relay,          \* the dud_proxy_loop task of the front broker
    exit,           \* whether the exit oneshot has been sent
    pushed,         \* history: commands in push order, per broker
    fetched,        \* history: commands returned by fetches, in pop order
    delivered,      \* history: [Ids -> payload response_handler sent, or "none"]
    httpOut         \* the latest response_handler call (identifier posted and
                    \* outcome), or "rejected" for a proxy_handler call
                    \* refused since

vars == <<process_queue, output_map, version, chan, nextId, tool, fetch, proxy,
          relay, exit, pushed, fetched, delivered, httpOut>>

\* ------------------------------------------------------------- data
NoCmd == [args |-> "none", id |-> NoId]
NoResult == [kind |-> "none", val |-> "none"]
OkResult(p) == [kind |-> "ok", val |-> p]
ErrResult(e) == [kind |-> "err", val |-> e]

\* ToolArguments::with_id: the same args, the identifier set to the minted one.
WithId(a, id) == [args |-> a, id |-> id]

\* HashMap::insert / HashMap::remove on output_map.
\* insert that registers nothing.
MapInsert_drop(m, k, v) == m
MapInsert(m, k, v) == [x \in (DOMAIN m) \cup {k} |-> IF x = k THEN v ELSE m[x]]
\* remove that hands the value out but leaves the entry in place (a get).
MapRemove_keep(m, k) == m
MapRemove(m, k) == [x \in (DOMAIN m) \ {k} |-> m[x]]
EmptyMap == [x \in {} |-> 0]

\* VecDeque::push_back / pop_front on process_queue.
\* push_front in place of push_back.
PushBack_front(q, c) == <<c>> \o q
PushBack(q, c) == Append(q, c)
\* front() in place of pop_front(): the head is read, not removed.
PopFront_keep(q) == q
PopFront(q) == Tail(q)
Front(q) == Head(q)

\* The receiver kept in AppState.waiter is never awaited on, so the version it
\* has seen stays the one of watch::channel(()); a clone copies that version.
StoredSeen == 0
CloneWaiter(b) == StoredSeen
\* watch::Sender::send bumps the version; Receiver::changed is ready when the
\* version differs from the one the receiver has seen.
\* A send that notifies nobody.
TriggerSend_lost(v) == v
TriggerSend(v) == v + 1
Changed(b, seen) == version[b] # seen
\* AppState owns the trigger for as long as the state lives, so changed()
\* never sees a closed channel.
\* The sender dropped while receivers still wait.
TriggerAlive_dropped == FALSE
TriggerAlive == TRUE

\* ------------------------------------------------------------- Init
InitTool == [pc |-> "none", broker |-> "none", args |-> "none",
             result |-> NoResult, ret |-> NoResult]
InitFetch == [pc |-> "idle", seen |-> 0, out |-> "none"]
InitProxy == [pc |-> "none", result |-> NoResult, ret |-> NoResult]
InitRelay == [pc |-> "init", seen |-> 0, entry |-> NoCmd]

Init ==
    /\ process_queue = [b \in Brokers |-> <<>>]
    /\ output_map = [b \in Brokers |-> EmptyMap]
    /\ version = [b \in Brokers |-> 0]
    /\ chan = [b \in Brokers |-> [h \in Ids |-> <<>>]]
    /\ nextId = 1
    /\ tool = [i \in Ids |-> InitTool]
    /\ fetch = [f \in Fetchers \cup RelayFetchers |-> InitFetch]
    /\ proxy = [i \in Ids |-> InitProxy]
    /\ relay = InitRelay
    /\ exit = FALSE
    /\ pushed = [b \in Brokers |-> <<>>]
    /\ fetched = <<>>
    /\ delivered = [i \in Ids |-> "none"]
    /\ httpOut = [id |-> NoId, outcome |-> "none"]

\* Whether the receiving half of channel h created at broker b is still held.
RxAlive(b, h) ==
    \/ tool[h].broker = b /\ tool[h].pc \in {"send", "recv", "forget"}
    \/ b = "back" /\ proxy[h].pc \in {"recv", "forget"}

\* Whether some sending half of channel h of broker b still exists (senders
\* live in the table; a handler that takes one out uses it in the same step).
TxAlive(b, h) == \E k \in DOMAIN output_map[b] : output_map[b][k] = h

\* ------------------------------------------------- generic_tool_run
\* Lines 400-408: mint the identifier, then under the lock push the command
\* and register the sender.
Submit(b, a) ==
    /\ nextId <= MaxCalls
    /\ LET id == nextId
           command == WithId(a, id)
       IN /\ process_queue' = [process_queue EXCEPT ![b] = PushBack(@, command)]
          /\ output_map' = [output_map EXCEPT ![b] = MapInsert(@, id, id)]
          /\ pushed' = [pushed EXCEPT ![b] = Append(@, command)]
          /\ tool' = [tool EXCEPT ![id] = [pc |-> "send", broker |-> b, args |-> a,
                                           result |-> NoResult, ret |-> NoResult]]
    /\ nextId' = nextId + 1
    /\ UNCHANGED <<version, chan, fetch, proxy, relay, exit, fetched, delivered, httpOut>>

\* Lines 409-411: trigger.send(()) after the lock is released.
ToolTrigger(id) ==
    /\ tool[id].pc = "send"
    /\ version' = [version EXCEPT ![tool[id].broker] = TriggerSend(@)]
    /\ tool' = [tool EXCEPT ![id].pc = "recv"]
    /\ UNCHANGED <<process_queue, output_map, chan, nextId, fetch, proxy, relay,
                   exit, pushed, fetched, delivered, httpOut>>

\* Lines 412-415: rx.recv().await; a closed empty channel ends the call with
\* "Couldn't receive response" before the cleanup.
\* A call that takes its result only once every earlier call of its broker
\* has finished.
ToolRecv_inorder(id) ==
    /\ tool[id].pc = "recv"
    /\ \A j \in Ids : (j < id /\ tool[j].broker = tool[id].broker)
                          => tool[j].pc \in {"done", "abandoned"}
    /\ LET b == tool[id].broker IN
       IF chan[b][id] # <<>>
       THEN /\ tool' = [tool EXCEPT ![id].pc = "forget", ![id].result = Head(chan[b][id])]
            /\ chan' = [chan EXCEPT ![b][id] = Tail(@)]
       ELSE /\ ~TxAlive(b, id)
            /\ tool' = [tool EXCEPT ![id].pc = "done",
                                    ![id].ret = [kind |-> "internal_error",
                                                 val |-> "Couldn't receive response"]]
            /\ chan' = chan
    /\ UNCHANGED <<process_queue, output_map, version, nextId, fetch, proxy, relay,
                   exit, pushed, fetched, delivered, httpOut>>

ToolRecv(id) ==
    /\ tool[id].pc = "recv"
    /\ LET b == tool[id].broker IN
       IF chan[b][id] # <<>>
       THEN /\ tool' = [tool EXCEPT ![id].pc = "forget", ![id].result = Head(chan[b][id])]
            /\ chan' = [chan EXCEPT ![b][id] = Tail(@)]
       ELSE /\ ~TxAlive(b, id)
            /\ tool' = [tool EXCEPT ![id].pc = "done",
                                    ![id].ret = [kind |-> "internal_error",
                                                 val |-> "Couldn't receive response"]]
            /\ chan' = chan
    /\ UNCHANGED <<process_queue, output_map, version, nextId, fetch, proxy, relay,
                   exit, pushed, fetched, delivered, httpOut>>

\* Lines 421-424: Ok -> CallToolResult::success, Err -> CallToolResult::error.
ToolReturn(result) ==
    IF result.kind = "ok" THEN [kind |-> "success", val |-> result.val]
    ELSE [kind |-> "error", val |-> result.val]

\* Lines 416-424: remove_entry(&id) under the lock, then return the result.
\* A cleanup that removes the oldest entry of the table instead of its own.
ToolForget_oldest(id) ==
    /\ tool[id].pc = "forget"
    /\ LET m == output_map[tool[id].broker]
           oldest == CHOOSE k \in DOMAIN m : \A j \in DOMAIN m : k <= j
       IN output_map' = [output_map EXCEPT ![tool[id].broker] =
                             IF DOMAIN m = {} THEN m ELSE MapRemove(m, oldest)]
    /\ tool' = [tool EXCEPT ![id].pc = "done", ![id].ret = ToolReturn(tool[id].result)]
    /\ UNCHANGED <<process_queue, version, chan, nextId, fetch, proxy, relay,
                   exit, pushed, fetched, delivered, httpOut>>

ToolForget(id) ==
    /\ tool[id].pc = "forget"
    /\ output_map' = [output_map EXCEPT ![tool[id].broker] = MapRemove(@, id)]
    /\ tool' = [tool EXCEPT ![id].pc = "done", ![id].ret = ToolReturn(tool[id].result)]
    /\ UNCHANGED <<process_queue, version, chan, nextId, fetch, proxy, relay,
                   exit, pushed, fetched, delivered, httpOut>>

\* The caller's environment drops the generic_tool_run future while it is
\* suspended in rx.recv().await: the receiver is dropped, nothing is cleaned up.
\* A drop that also takes the call's entry out of the table.
Abandon_cleanup(id) ==
    /\ tool[id].pc = "recv"
    /\ tool' = [tool EXCEPT ![id].pc = "abandoned"]
    /\ chan' = [chan EXCEPT ![tool[id].broker][id] = <<>>]
    /\ output_map' = [output_map EXCEPT ![tool[id].broker] = MapRemove(@, id)]
    /\ UNCHANGED <<process_queue, version, nextId, fetch, proxy, relay,
                   exit, pushed, fetched, delivered, httpOut>>

Abandon(id) ==
    /\ tool[id].pc = "recv"
    /\ tool' = [tool EXCEPT ![id].pc = "abandoned"]
    /\ chan' = [chan EXCEPT ![tool[id].broker][id] = <<>>]
    /\ UNCHANGED <<process_queue, output_map, version, nextId, fetch, proxy, relay,
                   exit, pushed, fetched, delivered, httpOut>>

\* ------------------------------------------------- request_handler
\* Lines 431-437, one pass of the loop under the lock: pop_front and return the
\* task, or clone the stored waiter and go on to wait.
FetchPass(f) ==
    IF process_queue["back"] # <<>>
    THEN /\ fetch' = [fetch EXCEPT ![f] = [pc |-> "done", seen |-> 0, out |-> "cmd"]]
         /\ process_queue' = [process_queue EXCEPT !["back"] = PopFront(@)]
         /\ fetched' = Append(fetched, Front(process_queue["back"]))
    ELSE /\ fetch' = [fetch EXCEPT ![f] = [pc |-> "wait", seen |-> CloneWaiter("back"),
                                           out |-> "none"]]
         /\ UNCHANGED <<process_queue, fetched>>

\* A new GET /request arrives (the executor polls again after an outcome) and
\* makes its first pass.
FetchStart(f) ==
    /\ fetch[f].pc \in {"idle", "done"}
    /\ FetchPass(f)
    /\ UNCHANGED <<output_map, version, chan, nextId, tool, proxy, relay, exit,
                   pushed, delivered, httpOut>>

\* Line 438 and the next pass: waiter.changed().await? is ready once the
\* version differs from the seen one, and the loop takes the lock again; an
\* Err (sender gone) ends the call with an error.
FetchWake(f) ==
    /\ fetch[f].pc = "wait"
    /\ IF TriggerAlive
       THEN /\ Changed("back", fetch[f].seen)
            /\ FetchPass(f)
       ELSE /\ fetch' = [fetch EXCEPT ![f] = [pc |-> "done", seen |-> 0, out |-> "error"]]
            /\ UNCHANGED <<process_queue, fetched>>
    /\ UNCHANGED <<output_map, version, chan, nextId, tool, proxy, relay, exit,
                   pushed, delivered, httpOut>>

\* Lines 429, 442-445: LONG_POLL_DURATION elapses while the inner future is
\* pending in changed(): StatusCode::LOCKED with an empty body.
\* A long poll without bound: the fetch keeps waiting.
FetchTimeout_hang(f) ==
    /\ fetch[f].pc = "wait"
    /\ UNCHANGED vars

FetchTimeout(f) ==
    /\ fetch[f].pc = "wait"
    /\ fetch' = [fetch EXCEPT ![f] = [pc |-> "done", seen |-> 0, out |-> "nowork"]]
    /\ UNCHANGED <<process_queue, output_map, version, chan, nextId, tool, proxy,
                   relay, exit, pushed, fetched, delivered, httpOut>>

\* ------------------------------------------------- response_handler
\* Lines 453-458, all under the lock: remove the sender or fail with
\* "Unknown ID"; send the response, failing when the receiver is gone.
DeliverOutcome(m, id) ==
    IF id \notin DOMAIN m THEN "unknown"
    ELSE IF RxAlive("back", m[id]) THEN "ok" ELSE "closed"

\* The sender looked up by position, not by the posted identifier: the oldest
\* pending entry's channel gets the payload.
Deliver_cross(id, p) ==
    /\ LET m == output_map["back"]
           outcome == DeliverOutcome(m, id)
           oldest == CHOOSE k \in DOMAIN m : \A j \in DOMAIN m : k <= j
       IN /\ httpOut' = [id |-> id, outcome |-> outcome]
          /\ IF outcome = "unknown"
             THEN UNCHANGED <<output_map, chan, delivered>>
             ELSE /\ output_map' = [output_map EXCEPT !["back"] = MapRemove(@, id)]
                  /\ IF outcome = "ok"
                     THEN /\ chan' = [chan EXCEPT !["back"][m[oldest]] = Append(@, OkResult(p))]
                          /\ delivered' = [delivered EXCEPT ![id] = p]
                     ELSE UNCHANGED <<chan, delivered>>
    /\ UNCHANGED <<process_queue, version, nextId, tool, fetch, proxy, relay, exit,
                   pushed, fetched>>

\* An unknown identifier falls back to the oldest pending entry, which is
\* removed, instead of failing without effect.
Deliver_fallback(id, p) ==
    /\ LET m == output_map["back"]
           outcome == DeliverOutcome(m, id)
           oldest == CHOOSE k \in DOMAIN m : \A j \in DOMAIN m : k <= j
       IN /\ httpOut' = [id |-> id, outcome |-> outcome]
          /\ IF outcome = "unknown"
             THEN /\ output_map' = [output_map EXCEPT !["back"] =
                                        IF DOMAIN m = {} THEN m ELSE MapRemove(m, oldest)]
                  /\ UNCHANGED <<chan, delivered>>
             ELSE /\ output_map' = [output_map EXCEPT !["back"] = MapRemove(@, id)]
                  /\ IF outcome = "ok"
                     THEN /\ chan' = [chan EXCEPT !["back"][m[id]] = Append(@, OkResult(p))]
                          /\ delivered' = [delivered EXCEPT ![id] = p]
                     ELSE UNCHANGED <<chan, delivered>>
    /\ UNCHANGED <<process_queue, version, nextId, tool, fetch, proxy, relay, exit,
                   pushed, fetched>>

Deliver(id, p) ==
    /\ LET m == output_map["back"]
           outcome == DeliverOutcome(m, id)
       IN /\ httpOut' = [id |-> id, outcome |-> outcome]
          /\ IF outcome = "unknown"
             THEN UNCHANGED <<output_map, chan, delivered>>
             ELSE /\ output_map' = [output_map EXCEPT !["back"] = MapRemove(@, id)]
                  /\ IF outcome = "ok"
                     THEN /\ chan' = [chan EXCEPT !["back"][m[id]] = Append(@, OkResult(p))]
                          /\ delivered' = [delivered EXCEPT ![id] = p]
                     ELSE UNCHANGED <<chan, delivered>>
    /\ UNCHANGED <<process_queue, version, nextId, tool, fetch, proxy, relay, exit,
                   pushed, fetched>>

\* Identifiers an executor can post: any minted one, or one never minted.
DeliverIds == (1..(nextId - 1)) \cup {ForgedId}

\* ------------------------------------------------- proxy_handler
\* Lines 465-472: a command without identifier is refused before anything is
\* touched; otherwise, under the lock, push the command and register the
\* sender under the caller-supplied identifier.  No trigger.send follows.
\* The identifier check left out: the command is queued as it came, its
\* sender registered under the nil identifier when it has none.
ProxyEnqueue_unchecked(command) ==
    /\ process_queue' = [process_queue EXCEPT !["back"] = PushBack(@, command)]
    /\ output_map' = [output_map EXCEPT !["back"] = MapInsert(@, command.id, command.id)]
    /\ pushed' = [pushed EXCEPT !["back"] = Append(@, command)]
    /\ proxy' = IF command.id = NoId THEN proxy
                ELSE [proxy EXCEPT ![command.id] = [pc |-> "recv", result |-> NoResult,
                                                    ret |-> NoResult]]
    /\ UNCHANGED httpOut

ProxyEnqueue(command) ==
    IF command.id = NoId
    THEN /\ httpOut' = [id |-> NoId, outcome |-> "rejected"]
         /\ UNCHANGED <<process_queue, output_map, pushed, proxy>>
    ELSE /\ process_queue' = [process_queue EXCEPT !["back"] = PushBack(@, command)]
         /\ output_map' = [output_map EXCEPT !["back"] = MapInsert(@, command.id, command.id)]
         /\ pushed' = [pushed EXCEPT !["back"] = Append(@, command)]
         /\ proxy' = [proxy EXCEPT ![command.id] = [pc |-> "recv", result |-> NoResult,
                                                    ret |-> NoResult]]
         /\ UNCHANGED httpOut

\* A POST /proxy whose body carries no identifier reaches the back broker.
ProxyStray(a) ==
    /\ ProxyEnqueue([args |-> a, id |-> NoId])
    /\ UNCHANGED <<version, chan, nextId, tool, fetch, relay, exit, fetched,
                   delivered>>

\* Line 473: rx.recv().await.ok_or_eyre(..)??: a closed channel or an Err
\* result ends the handler with an error, without the cleanup.
ProxyRecv(id) ==
    /\ proxy[id].pc = "recv"
    /\ IF chan["back"][id] # <<>>
       THEN /\ chan' = [chan EXCEPT !["back"][id] = Tail(@)]
            /\ IF Head(chan["back"][id]).kind = "ok"
               THEN proxy' = [proxy EXCEPT ![id].pc = "forget",
                                           ![id].result = Head(chan["back"][id])]
               ELSE proxy' = [proxy EXCEPT ![id].pc = "done",
                                           ![id].ret = ErrResult("status 500")]
       ELSE /\ ~TxAlive("back", id)
            /\ proxy' = [proxy EXCEPT ![id].pc = "done", ![id].ret = ErrResult("status 500")]
            /\ chan' = chan
    /\ UNCHANGED <<process_queue, output_map, version, nextId, tool, fetch, relay,
                   exit, pushed, fetched, delivered, httpOut>>

\* Lines 474-479: remove_entry(&id) under the lock, then answer
\* Json(RunCommandResponse { response, id }).
ProxyForget(id) ==
    /\ proxy[id].pc = "forget"
    /\ output_map' = [output_map EXCEPT !["back"] = MapRemove(@, id)]
    /\ proxy' = [proxy EXCEPT ![id].pc = "done", ![id].ret = proxy[id].result]
    /\ UNCHANGED <<process_queue, version, chan, nextId, tool, fetch, relay, exit,
                   pushed, fetched, delivered, httpOut>>

\* ------------------------------------------------- dud_proxy_loop
\* Line 485: clone the front broker's stored waiter, once.
RelayInit ==
    /\ relay.pc = "init"
    /\ relay' = [relay EXCEPT !.pc = "loop", !.seen = CloneWaiter("front")]
    /\ UNCHANGED <<process_queue, output_map, version, chan, nextId, tool, fetch,
                   proxy, exit, pushed, fetched, delivered, httpOut>>

\* Lines 486-488, 512-513: leave the loop once exit has been sent; otherwise
\* pop_front under the lock and go on to post the entry, or to wait.
\* A loop that takes the newest command (pop_back) instead of the oldest.
RelayPop_lifo ==
    /\ relay.pc = "loop"
    /\ IF exit
       THEN /\ relay' = [relay EXCEPT !.pc = "exited"]
            /\ UNCHANGED process_queue
       ELSE IF process_queue["front"] # <<>>
       THEN /\ relay' = [relay EXCEPT !.pc = "post",
                            !.entry = process_queue["front"][Len(process_queue["front"])]]
            /\ process_queue' = [process_queue EXCEPT !["front"] =
                                    SubSeq(@, 1, Len(@) - 1)]
       ELSE /\ relay' = [relay EXCEPT !.pc = "wait"]
            /\ UNCHANGED process_queue
    /\ UNCHANGED <<output_map, version, chan, nextId, tool, fetch, proxy, exit,
                   pushed, fetched, delivered, httpOut>>

RelayPop ==
    /\ relay.pc = "loop"
    /\ IF exit
       THEN /\ relay' = [relay EXCEPT !.pc = "exited"]
            /\ UNCHANGED process_queue
       ELSE IF process_queue["front"] # <<>>
       THEN /\ relay' = [relay EXCEPT !.pc = "post", !.entry = Front(process_queue["front"])]
            /\ process_queue' = [process_queue EXCEPT !["front"] = PopFront(@)]
       ELSE /\ relay' = [relay EXCEPT !.pc = "wait"]
            /\ UNCHANGED process_queue
    /\ UNCHANGED <<output_map, version, chan, nextId, tool, fetch, proxy, exit,
                   pushed, fetched, delivered, httpOut>>

\* Line 513: waiter.changed().await.unwrap() on the loop's own receiver, which
\* marks the version it returns for as seen.
RelayWake ==
    /\ relay.pc = "wait"
    /\ Changed("front", relay.seen)
    /\ relay' = [relay EXCEPT !.pc = "loop", !.seen = version["front"]]
    /\ UNCHANGED <<process_queue, output_map, version, chan, nextId, tool, fetch,
                   proxy, exit, pushed, fetched, delivered, httpOut>>

\* Lines 489-493: the POST reaches the back broker's proxy_handler.
RelayPost ==
    /\ relay.pc = "post"
    /\ ProxyEnqueue(relay.entry)
    /\ relay' = [relay EXCEPT !.pc = "inflight"]
    /\ UNCHANGED <<version, chan, nextId, tool, fetch, exit, fetched, delivered>>

\* Lines 494, 509-511: the POST fails in transport: logged, nothing resolved.
\* A loop that puts the command back at the end of the queue on failure.
RelayPostFail_requeue ==
    /\ relay.pc = "post"
    /\ relay' = [relay EXCEPT !.pc = "loop", !.entry = NoCmd]
    /\ process_queue' = [process_queue EXCEPT !["front"] = PushBack(@, relay.entry)]
    /\ UNCHANGED <<output_map, version, chan, nextId, tool, fetch,
                   proxy, exit, pushed, fetched, delivered, httpOut>>

RelayPostFail ==
    /\ relay.pc = "post"
    /\ relay' = [relay EXCEPT !.pc = "loop", !.entry = NoCmd]
    /\ UNCHANGED <<process_queue, output_map, version, chan, nextId, tool, fetch,
                   proxy, exit, pushed, fetched, delivered, httpOut>>

\* Lines 503-507: the body of the response decoded as RunCommandResponse, an
\* error response decoding to Err.
\* A decoder that never accepts the body.
DecodeResponse_failed(ret) == ErrResult("decode")
DecodeResponse(ret) ==
    IF ret.kind = "ok" THEN OkResult(ret.val) ELSE ErrResult("decode")

\* Lines 494-508: the response of the back broker has arrived: remove the
\* sender from the front table (unwrap), decode the body, send the result on
\* it (unwrap).  Either unwrap panics the task.
RelayResolve ==
    /\ relay.pc = "inflight"
    /\ proxy[relay.entry.id].pc = "done"
    /\ LET id == relay.entry.id
           m == output_map["front"]
       IN IF id \notin DOMAIN m
          THEN /\ relay' = [relay EXCEPT !.pc = "panicked"]
               /\ UNCHANGED <<output_map, chan>>
          ELSE /\ output_map' = [output_map EXCEPT !["front"] = MapRemove(@, id)]
               /\ IF RxAlive("front", m[id])
                  THEN /\ chan' = [chan EXCEPT !["front"][m[id]] =
                                       Append(@, DecodeResponse(proxy[id].ret))]
                       /\ relay' = [relay EXCEPT !.pc = "loop", !.entry = NoCmd]
                  ELSE /\ relay' = [relay EXCEPT !.pc = "panicked"]
                       /\ chan' = chan
    /\ UNCHANGED <<process_queue, version, nextId, tool, fetch, proxy, exit, pushed,
                   fetched, delivered, httpOut>>

\* The owner of the exit oneshot sends on it.
RaiseExit ==
    /\ ~exit
    /\ exit' = TRUE
    /\ UNCHANGED <<process_queue, output_map, version, chan, nextId, tool, fetch,
                   proxy, relay, pushed, fetched, delivered, httpOut>>

\* ------------------------------------------------- specification
\* One broker serving the HTTP endpoints, with its own tool callers.
Next ==
    \/ \E a \in Args : Submit("back", a)
    \/ \E id \in Ids : ToolTrigger(id)
    \/ \E id \in Ids : ToolRecv(id)
    \/ \E id \in Ids : ToolForget(id)
    \/ \E id \in Ids : Abandon(id)
    \/ \E f \in Fetchers : FetchStart(f)
    \/ \E f \in Fetchers : FetchWake(f)
    \/ \E f \in Fetchers : FetchTimeout(f)
    \/ \E id \in DeliverIds, p \in Payloads : Deliver(id, p)

Spec == Init /\ [][Next]_vars

\* A front broker running the relay loop and a back broker serving the
\* endpoints to one executor; tool callers on both.
RelayNext ==
    \/ \E b \in Brokers, a \in Args : Submit(b, a)
    \/ \E id \in Ids : ToolTrigger(id)
    \/ \E id \in Ids : ToolRecv(id)
    \/ \E id \in Ids : ToolForget(id)
    \/ \E id \in Ids : Abandon(id)
    \/ \E f \in RelayFetchers : FetchStart(f)
    \/ \E f \in RelayFetchers : FetchWake(f)
    \/ \E f \in RelayFetchers : FetchTimeout(f)
    \/ \E id \in DeliverIds, p \in Payloads : Deliver(id, p)
    \/ \E a \in Args : ProxyStray(a)
    \/ \E id \in Ids : ProxyRecv(id)
    \/ \E id \in Ids : ProxyForget(id)
    \/ RelayInit
    \/ RelayPop
    \/ RelayWake
    \/ RelayPost
    \/ RelayPostFail
    \/ RelayResolve

RelaySpec == Init /\ [][RelayNext]_vars

\* Both brokers with every executor of the back broker polling concurrently.
FullNext ==
    \/ \E b \in Brokers, a \in Args : Submit(b, a)
    \/ \E id \in Ids : ToolTrigger(id)
    \/ \E id \in Ids : ToolRecv(id)
    \/ \E id \in Ids : ToolForget(id)
    \/ \E id \in Ids : Abandon(id)
    \/ \E f \in Fetchers : FetchStart(f)
    \/ \E f \in Fetchers : FetchWake(f)
    \/ \E f \in Fetchers : FetchTimeout(f)
    \/ \E id \in DeliverIds, p \in Payloads : Deliver(id, p)
    \/ \E a \in Args : ProxyStray(a)
    \/ \E id \in Ids : ProxyRecv(id)
    \/ \E id \in Ids : ProxyForget(id)
    \/ RelayInit
    \/ RelayPop
    \/ RelayWake
    \/ RelayPost
    \/ RelayPostFail
    \/ RelayResolve

FullSpec == Init /\ [][FullNext]_vars

\* The runtime polls every task that can make progress: each step of a call
\* that is ready is eventually taken.  Submissions, deliveries, abandonment,
\* stray or failing POSTs and new polls are up to the environment.
ToolFairness ==
    \A id \in Ids : /\ WF_vars(ToolTrigger(id))
                     /\ WF_vars(ToolRecv(id))
                     /\ WF_vars(ToolForget(id))

ProxyFairness ==
    \A id \in Ids : WF_vars(ProxyRecv(id)) /\ WF_vars(ProxyForget(id))

RelayFairness ==
    /\ WF_vars(RelayInit) /\ WF_vars(RelayPop) /\ WF_vars(RelayWake)
    /\ WF_vars(RelayPost) /\ WF_vars(RelayResolve)

\* The executor polls again after every outcome, and a poll in progress is
\* scheduled: it is woken when its changed() is ready and its timer runs out.
FetchFairness ==
    \A f \in RelayFetchers : /\ WF_vars(FetchStart(f))
                              /\ WF_vars(FetchWake(f))
                              /\ WF_vars(FetchTimeout(f))

FairSpec == Spec /\ ToolFairness

FairRelaySpec == RelaySpec /\ ToolFairness /\ ProxyFairness /\ RelayFairness

FairPickupSpec == RelaySpec /\ FetchFairness

\* ------------------------------------------------------------- claims
IsPrefix(s, t) == Len(s) <= Len(t) /\ SubSeq(t, 1, Len(s)) = s

\* The result a finished or finishing call holds is the payload posted for
\* its own identifier.
ReturnsOwnDelivery(id) ==
    /\ tool[id].pc \in {"forget", "done"} =>
           /\ delivered[id] # "none"
           /\ tool[id].result = OkResult(delivered[id])
    /\ tool[id].pc = "done" => tool[id].ret = [kind |-> "success", val |-> delivered[id]]

\* C1: a submission returns payload p only if response_handler was called
\* with the submission's own identifier and p (never a payload posted under
\* another identifier, never without a delivery), and every submission whose
\* delivery was made returns, unless its caller abandons it.
C1_Correlation ==
    /\ [](\A id \in Ids : ReturnsOwnDelivery(id))
    /\ \A id \in Ids :
          (delivered[id] # "none") ~> (tool[id].pc \in {"done", "abandoned"})

\* Two concurrent submissions have both returned, each its own payload, the
\* two payloads differing.
C1_Witness ==
    /\ tool[1].pc = "done" /\ tool[2].pc = "done"
    /\ tool[1].ret.val # tool[2].ret.val
    /\ tool[1].ret.val = delivered[1] /\ tool[2].ret.val = delivered[2]

\* C2: the commands returned by fetches so far are, in order, a prefix of
\* the commands in the order they were pushed onto the queue.
C2_Fifo == IsPrefix(fetched, pushed["back"])

\* Two concurrent fetchers have each returned one of two submitted commands.
C2_Witness ==
    /\ Len(fetched) = 2
    /\ \A f \in Fetchers : fetch[f].out = "cmd"
    /\ version["back"] = 2

\* Whether the submission path has finished enqueuing the command: pushed it
\* and sent the wake signal.
EnqueueDone(c) == tool[c.id].pc \notin {"none", "send"}

\* C3: a fetch that waits on a queue which now holds a command whose
\* submission has sent its wake signal is woken: its changed() is ready, so it
\* loops and dequeues.
C3_NoMissedWake ==
    \A f \in Fetchers :
        (/\ fetch[f].pc = "wait"
         /\ \E i \in 1..Len(process_queue["back"]) : EnqueueDone(process_queue["back"][i]))
        => Changed("back", fetch[f].seen)

\* A fetch found the queue empty and waits; a submission has since pushed a
\* command and sent the wake signal.
C3_Witness ==
    /\ fetch[1].pc = "wait"
    /\ process_queue["back"] = <<WithId(tool[1].args, 1)>>
    /\ tool[1].pc = "recv"

\* C4: a fetch ends either with exactly one command, the head of a queue
\* that was not empty, or, the queue having been empty at its last pass, with
\* "no work", which touches neither the queue nor the table; never otherwise.
FetchEnds(f) ==
    (fetch'[f] # fetch[f] /\ fetch'[f].pc = "done") =>
        \/ /\ fetch'[f].out = "cmd"
           /\ process_queue["back"] # <<>>
           /\ fetched' = Append(fetched, Head(process_queue["back"]))
        \/ /\ fetch'[f].out = "nowork"
           /\ fetch[f].pc = "wait"
           /\ UNCHANGED <<process_queue, output_map, fetched>>

C4_NoWork == [][\A f \in Fetchers : FetchEnds(f)]_vars

\* A fetch has timed out on an empty queue while a submission was pending.
C4_Witness ==
    /\ fetch[1].out = "nowork"
    /\ process_queue["back"] = <<>>
    /\ DOMAIN output_map["back"] # {}

SeqIds(q) == {q[i].id : i \in 1..Len(q)}

\* C5: a command the relay loop forwards reaches the back broker's queue as
\* the front broker pushed it, identifier included; the relay-receive call
\* answers with the payload posted to the back broker under that identifier,
\* and the front submission returns that same payload, which it eventually
\* does once the payload has been posted, unless its caller abandons it.
C5_RelayEndToEnd ==
    /\ [](\A id \in Ids :
            /\ proxy[id].pc # "none" =>
                   /\ tool[id].broker = "front"
                   /\ \E i \in 1..Len(pushed["back"]) :
                          /\ pushed["back"][i] = WithId(tool[id].args, id)
                          /\ pushed["back"][i] \in {pushed["front"][j] :
                                                       j \in 1..Len(pushed["front"])}
            /\ proxy[id].pc = "done" => proxy[id].ret = OkResult(delivered[id])
            /\ ReturnsOwnDelivery(id))
    /\ \A id \in Ids :
          (tool[id].broker = "front" /\ delivered[id] # "none")
              ~> (tool[id].pc \in {"done", "abandoned"})

\* A front submission was forwarded, fetched at the back broker, answered
\* there, and has returned the posted payload.
C5_Witness ==
    /\ tool[1].broker = "front" /\ tool[1].pc = "done"
    /\ proxy[1].pc = "done"
    /\ 1 \in SeqIds(fetched)
    /\ tool[1].ret = [kind |-> "success", val |-> delivered[1]]

\* C6: once response_handler has succeeded for an identifier, a further call
\* for it fails with "Unknown ID" and changes neither table, channels nor
\* queue; a channel never holds more than the one payload first posted.
SecondDeliver(id, p) ==
    (Deliver(id, p) /\ delivered[id] # "none") =>
        /\ httpOut'.outcome = "unknown"
        /\ UNCHANGED <<output_map, chan, delivered, process_queue, tool>>

C6_ResolveOnce ==
    /\ [][\A id \in Ids, p \in Payloads : SecondDeliver(id, p)]_vars
    /\ [](\A id \in Ids :
            chan["back"][id] \in {<<>>, <<OkResult(delivered[id])>>})

\* A second delivery for identifier 1 has failed after the first succeeded,
\* and the caller has returned the first payload.
C6_Witness ==
    /\ httpOut = [id |-> 1, outcome |-> "unknown"]
    /\ delivered[1] # "none"
    /\ tool[1].pc = "done"
    /\ tool[1].ret.val = delivered[1]

\* C7: a response_handler call whose identifier has no table entry fails
\* with "Unknown ID" and leaves the queue, the table, every channel and every
\* waiting call as they were.
UnknownDeliver(id, p) ==
    (Deliver(id, p) /\ id \notin DOMAIN output_map["back"]) =>
        /\ httpOut'.outcome = "unknown"
        /\ UNCHANGED <<process_queue, output_map, chan, tool, proxy, fetch,
                       delivered, version>>

C7_UnknownId == [][\A id \in Ids \cup {ForgedId}, p \in Payloads : UnknownDeliver(id, p)]_vars

\* A delivery under a never-minted identifier has failed while a submission
\* is waiting with its entry still in the table.
C7_Witness ==
    /\ httpOut = [id |-> ForgedId, outcome |-> "unknown"]
    /\ \E id \in Ids : tool[id].pc = "recv" /\ id \in DOMAIN output_map["back"]

\* C8: the queue of a broker changes only by a push at its back or by the
\* removal of its head, the head going to the fetch that returns it (back
\* broker) or to the relay loop (front broker); a fetch returns a command only
\* by removing it; no identifier is returned twice.
IsPush(b) ==
    /\ Len(process_queue'[b]) = Len(process_queue[b]) + 1
    /\ SubSeq(process_queue'[b], 1, Len(process_queue[b])) = process_queue[b]
    /\ pushed'[b] = Append(pushed[b], process_queue'[b][Len(process_queue'[b])])

IsTake(b) ==
    /\ process_queue[b] # <<>>
    /\ process_queue'[b] = Tail(process_queue[b])
    /\ IF b = "back"
       THEN /\ fetched' = Append(fetched, Head(process_queue[b]))
            /\ \E f \in Fetchers : fetch'[f].out = "cmd"
       ELSE /\ relay.pc = "loop" /\ relay'.pc = "post"
            /\ relay'.entry = Head(process_queue[b])

QueueStep ==
    /\ \A b \in Brokers :
          process_queue'[b] # process_queue[b] => (IsPush(b) \/ IsTake(b))
    /\ fetched' # fetched => IsTake("back")

C8_RemovedOnce ==
    /\ [][QueueStep]_vars
    /\ [](/\ Cardinality(SeqIds(fetched)) = Len(fetched)
          /\ SeqIds(fetched) \cap SeqIds(process_queue["back"]) = {})

\* Two concurrent fetches have each returned a different command, one of
\* which the relay loop had popped from the front queue.
C8_Witness ==
    /\ Len(fetched) = 2
    /\ \A f \in Fetchers : fetch[f].out = "cmd"
    /\ relay.pc = "inflight"
    /\ process_queue = [b \in Brokers |-> <<>>]

\* C9: a fetch waiting on the back broker's queue is woken once relay-receive
\* has enqueued a command there.
C9_ProxyEnqueueWakes ==
    \A f \in RelayFetchers :
        (/\ fetch[f].pc = "wait"
         /\ \E i \in 1..Len(process_queue["back"]) :
                proxy[process_queue["back"][i].id].pc # "none")
        => Changed("back", fetch[f].seen)

\* C10: a relay-receive call without identifier is refused and changes
\* neither queue nor table; every queued command and every table entry
\* carries an identifier.
StrayRefused(a) ==
    ProxyStray(a) =>
        /\ httpOut'.outcome = "rejected"
        /\ UNCHANGED <<process_queue, output_map, chan, proxy, pushed>>

C10_NoIdRejected ==
    /\ [][\A a \in Args : StrayRefused(a)]_vars
    /\ [](\A b \in Brokers :
            /\ SeqIds(process_queue[b]) \subseteq Ids
            /\ DOMAIN output_map[b] \subseteq Ids)

\* A POST without identifier has been refused while a forwarded command sits
\* in the back broker's queue.
C10_Witness ==
    /\ httpOut.outcome = "rejected"
    /\ \E i \in 1..Len(process_queue["back"]) :
          proxy[process_queue["back"][i].id].pc = "recv"
    /\ DOMAIN output_map["back"] # {}

\* C11: abandoning a suspended submission never stops the broker serving
\* others: with abandoned calls around, the relay loop is still running.
C11_AbandonSafe ==
    (\E id \in Ids : tool[id].pc = "abandoned") => relay.pc # "panicked"

\* The relay pair with the owner of the exit channel able to signal shutdown.
ExitNext ==
    \/ \E b \in Brokers, a \in Args : Submit(b, a)
    \/ \E id \in Ids : ToolTrigger(id)
    \/ \E id \in Ids : ToolRecv(id)
    \/ \E id \in Ids : ToolForget(id)
    \/ \E id \in Ids : Abandon(id)
    \/ \E f \in RelayFetchers : FetchStart(f)
    \/ \E f \in RelayFetchers : FetchWake(f)
    \/ \E f \in RelayFetchers : FetchTimeout(f)
    \/ \E id \in DeliverIds, p \in Payloads : Deliver(id, p)
    \/ \E a \in Args : ProxyStray(a)
    \/ \E id \in Ids : ProxyRecv(id)
    \/ \E id \in Ids : ProxyForget(id)
    \/ RelayInit
    \/ RelayPop
    \/ RelayWake
    \/ RelayPost
    \/ RelayPostFail
    \/ RelayResolve
    \/ RaiseExit

ExitSpec == Init /\ [][ExitNext]_vars

FairExitSpec == ExitSpec /\ ToolFairness /\ ProxyFairness /\ RelayFairness

\* C12: once exit has been raised the relay loop ends (or is still awaiting
\* the response to a POST in flight), whatever it was doing when the signal
\* came and without any further submission.
C12_ExitTerminates ==
    exit ~> (relay.pc \in {"exited", "panicked"} \/ relay.pc \in {"post", "inflight"})

\* A front submission whose command the relay loop popped and dropped: it is
\* neither queued nor held by the loop, and never reached the back broker.
Lost(id) ==
    /\ tool[id].broker = "front"
    /\ id \notin SeqIds(process_queue["front"])
    /\ relay.entry.id # id
    /\ proxy[id].pc = "none"

\* C13: a failed relay POST resolves nothing: queue, table and channels are
\* untouched and the loop goes on to its next iteration; the command stays
\* out of the queue for good, its table entry stays, nothing is sent to the
\* caller and the caller does not return.
C13_PostFailure ==
    /\ [][RelayPostFail =>
            /\ UNCHANGED <<process_queue, output_map, chan, tool, proxy>>
            /\ relay'.pc = "loop"
            /\ \E id \in Ids : id = relay.entry.id /\ Lost(id)']_vars
    /\ [][\A id \in Ids : Lost(id) => Lost(id)']_vars
    /\ [](\A id \in Ids : Lost(id) =>
            /\ id \in DOMAIN output_map["front"]
            /\ chan["front"][id] = <<>>
            /\ tool[id].pc \in {"send", "recv", "abandoned"})

\* The POST of the first front submission failed and its caller still waits;
\* the second front submission was forwarded afterwards and has returned.
C13_Witness ==
    /\ Lost(1) /\ tool[1].pc = "recv"
    /\ tool[2].broker = "front" /\ tool[2].pc = "done"
    /\ tool[2].ret.kind = "success"

\* A pass of fetch f that found the queue empty and subscribed.
Subscribes(f) == (FetchStart(f) \/ FetchWake(f)) /\ fetch'[f].pc = "wait"

\* C14: a fetch that found the queue empty makes no further dequeue attempt
\* until a wake signal is fired after its subscribe step: right after
\* subscribing, its changed() is not ready.  The relay loop's wait returns
\* only for a version it had not seen, which it then marks seen.
C14_WakeDriven ==
    /\ [][\A f \in Fetchers :
            Subscribes(f) => ~(version'["back"] # fetch'[f].seen)]_vars
    /\ [][RelayWake => /\ relay.seen < version["front"]
                       /\ relay'.seen = version["front"]]_vars

\* A response posted for id resolves id's entry whatever else is pending: the
\* payload goes to id's channel, every other channel and entry is left alone.
ResolvesOnlyOwn(id, p) ==
    (Deliver(id, p) /\ DeliverOutcome(output_map["back"], id) = "ok") =>
        /\ chan'["back"][id] = Append(chan["back"][id], OkResult(p))
        /\ \A j \in Ids \ {id} :
              /\ chan'["back"][j] = chan["back"][j]
              /\ j \in DOMAIN output_map["back"] => j \in DOMAIN output_map'["back"]

\* C15: results may be delivered in any order: a delivery resolves exactly
\* the submission of its identifier, a submission whose result has arrived
\* can take it whatever the state of the other submissions, and each
\* submission returns its own payload.
C15_OutOfOrder ==
    /\ [][\A id \in Ids, p \in Payloads : ResolvesOnlyOwn(id, p)]_vars
    /\ [](\A id \in Ids :
            (tool[id].pc = "recv" /\ chan[tool[id].broker][id] # <<>>)
                => ENABLED ToolRecv(id))
    /\ [](\A id \in Ids :
            tool[id].pc = "done" /\ delivered[id] # "none"
                => tool[id].ret = [kind |-> "success", val |-> delivered[id]])

\* Both commands were fetched, A (enqueued first) is still pending and B has
\* returned the payload posted for it.
C15_Witness ==
    /\ Len(fetched) = 2 /\ fetched[1].id = 1 /\ fetched[2].id = 2
    /\ tool[1].pc = "recv" /\ 1 \in DOMAIN output_map["back"]
    /\ tool[2].pc = "done" /\ tool[2].ret = [kind |-> "success", val |-> delivered[2]]

\* Whether some fetch has returned the command of identifier id.
Returned(id) == \E i \in 1..Len(fetched) : fetched[i].id = id

\* C16: with an executor that keeps polling, every command in the back
\* broker's queue, pushed by generic_tool_run or by proxy_handler, is
\* eventually returned by a fetch.
C16_EventualPickup ==
    \A id \in Ids : (id \in SeqIds(process_queue["back"])) ~> Returned(id)

\* A command pushed by the submission path and one pushed by relay-receive
\* have both been returned, leaving the queue empty.
C16_Witness ==
    /\ \E id \in Ids : Returned(id) /\ tool[id].broker = "back"
    /\ \E id \in Ids : Returned(id) /\ proxy[id].pc # "none"
    /\ process_queue["back"] = <<>>

\* The cleanup step of call id: the queues are untouched, no entry of another
\* identifier leaves a table, and with id's entry already gone the tables are
\* untouched too.
CleanupHarmless(id) ==
    (ToolForget(id) \/ ProxyForget(id)) =>
        /\ UNCHANGED process_queue
        /\ \A b \in Brokers :
              /\ DOMAIN output_map[b] \ {id} \subseteq DOMAIN output_map'[b]
              /\ id \notin DOMAIN output_map[b] => output_map'[b] = output_map[b]

\* Whether the call registered under k at broker b is still waiting for its
\* result or was abandoned while waiting.
StillWaiting(b, k) ==
    \/ tool[k].broker = b /\ tool[k].pc \in {"send", "recv", "abandoned"}
    \/ b = "back" /\ proxy[k].pc = "recv"

\* C17: the cleanup of a call that has its result removes nothing but the
\* call's own entry and is a no-op when resolve already removed it; a call
\* that has returned has no entry, and every entry belongs to a call still
\* waiting or abandoned.
C17_ForgetAfterConsumption ==
    /\ [][\A id \in Ids : CleanupHarmless(id)]_vars
    /\ [](\A id \in Ids :
            /\ tool[id].pc = "done" => id \notin DOMAIN output_map[tool[id].broker]
            /\ proxy[id].pc = "done" => id \notin DOMAIN output_map["back"])
    /\ [](\A b \in Brokers : \A k \in DOMAIN output_map[b] : StillWaiting(b, k))

\* A relay-receive call has cleaned up and answered while the front caller it
\* serves still has its entry in the front table.
C17_Witness ==
    \E id \in Ids :
        /\ proxy[id].pc = "done" /\ proxy[id].ret.kind = "ok"
        /\ id \in DOMAIN output_map["front"]
        /\ \E j \in Ids \ {id} : tool[j].pc = "done" /\ tool[j].ret.kind = "success"

\* C18: from the pop of a command to the relay loop's resolve step the front
\* table holds the entry of the command's identifier, so the removal in the
\* resolve step finds it, also when the caller was abandoned meanwhile.
C18_ResolveFindsEntry ==
    /\ [](relay.pc \in {"post", "inflight"}
            => relay.entry.id \in DOMAIN output_map["front"])
    /\ [][RelayResolve => /\ relay.entry.id \in DOMAIN output_map["front"]
                          /\ relay.entry.id \notin DOMAIN output_map'["front"]]_vars

\* The resolve step ran for a caller abandoned while its command was on its
\* way to the back broker: the entry was found and removed.
C18_Witness ==
    /\ relay.pc = "panicked"
    /\ tool[relay.entry.id].pc = "abandoned"
    /\ proxy[relay.entry.id].pc = "done"
    /\ relay.entry.id \notin DOMAIN output_map["front"]

\* Every queued command has an entry for its identifier in its broker's table.
QueueCovered ==
    \A b \in Brokers : SeqIds(process_queue[b]) \subseteq DOMAIN output_map[b]

\* A response is posted for an identifier whose command is still queued.
EarlyDeliver ==
    \E id \in SeqIds(process_queue["back"]), p \in Payloads : Deliver(id, p)

\* C19: every queued command has a table entry: this holds initially and is
\* kept by every step other than a deliver for an identifier whose command
\* is still queued, and such a deliver breaks it.
C19_QueueTableConsistent ==
    /\ QueueCovered
    /\ [][(QueueCovered /\ ~EarlyDeliver) => QueueCovered']_vars
    /\ [][(QueueCovered /\ EarlyDeliver) => ~QueueCovered']_vars

\* With responses posted only for fetched commands so far: one command was
\* fetched and resolved, a command pushed by relay-receive is still queued
\* with its entry registered.
C19_Witness ==
    /\ QueueCovered
    /\ \E id \in Ids : Returned(id) /\ delivered[id] # "none"
    /\ \E id \in SeqIds(process_queue["back"]) : proxy[id].pc = "recv"

\* Forwarded commands whose proxy_handler call at the back broker has not
\* answered yet.
Outstanding == {id \in Ids : proxy[id].pc \in {"recv", "forget"}}

\* Whether the front submission id has been resolved by the relay loop.
Resolved(id) ==
    /\ tool[id].broker = "front"
    /\ id \notin DOMAIN output_map["front"]

\* The positions in enqueue order of the front broker's submissions.
FrontPos == 1..Len(pushed["front"])

\* C20: the relay loop has at most one forwarded command outstanding, the
\* one whose POST it awaits; while it awaits, nothing leaves the front queue
\* and every queued submission stays blocked; submissions are resolved in
\* enqueue order: when one is resolved, every earlier one is resolved already
\* or was dropped by a failed POST.
C20_RelaySerial ==
    /\ [](/\ Cardinality(Outstanding) <= 1
          /\ \A id \in Outstanding : relay.pc = "inflight" /\ relay.entry.id = id)
    /\ [](\A i, j \in FrontPos :
            (i < j /\ Resolved(pushed["front"][j].id))
                => (Resolved(pushed["front"][i].id) \/ Lost(pushed["front"][i].id)))
    /\ [](relay.pc = "inflight" =>
            \A id \in SeqIds(process_queue["front"]) :
                /\ id \in DOMAIN output_map["front"]
                /\ chan["front"][id] = <<>>
                /\ tool[id].pc \in {"send", "recv", "abandoned"})
    /\ [][(relay.pc = "inflight" /\ relay'.pc = "inflight")
            => IsPrefix(process_queue["front"], process_queue'["front"])]_vars

\* The first front submission has been resolved and has returned; the POST
\* of the second is in flight with its caller waiting.
C20_Witness ==
    /\ pushed["front"] = <<WithId("ping", 1), WithId("ping", 2)>>
    /\ tool[1].pc = "done" /\ tool[1].ret.kind = "success"
    /\ relay.pc = "inflight" /\ relay.entry.id = 2
    /\ Outstanding = {2} /\ tool[2].pc = "recv"

====
